---- MODULE Spec2Model ----
(***************************************************************************)
(* State-machine model of                                                  *)
(*   - web/modules/backtest.py : historical_backtest (the backtest loop    *)
(*     and its lazily imported module-level engine class), and             *)
(*   - tradingagents/utils/sqlite_fix.py : apply_sqlite_fix (the           *)
(*     process-wide sqlite3 module replacement).                           *)
(*                                                                         *)
(* Dates: a "%Y-%m-%d" string is the triple <<year, month, day>> of its    *)
(* fields, a datetime is a record [year, month, day]; strptime, strftime,  *)
(* datetime comparison, subtraction (.days) and + timedelta(days) are      *)
(* modelled by the proleptic Gregorian ordinal arithmetic Python uses.     *)
(* Real numbers (confidence, risk_score) are counted in tenths; a progress *)
(* value is the fraction <<numerator, denominator>>.                       *)
(***************************************************************************)
EXTENDS Integers, Sequences, FiniteSets, TLC

\* ------------------------------------------------------------ bounds
\* Number of calls of historical_backtest in one process.
MaxCalls == 2
\* The input dates of the 2024 window are BaseDate .. BaseDate + SpanDays.
SpanDays == 3
\* interval_days is drawn from -1 .. MaxInterval.
MaxInterval == 2
\* A run with interval_days <= 0 never leaves the loop: it is followed for
\* MaxRows rows only.
MaxRows == 2
\* Number of calls of apply_sqlite_fix in one process.
MaxFixCalls == 3

\* ------------------------------------------------------------ calendar
IsLeap(y) == y % 4 = 0 /\ (y % 100 # 0 \/ y % 400 = 0)

DaysInMonth(y, m) ==
    IF m = 2 THEN (IF IsLeap(y) THEN 29 ELSE 28)
    ELSE IF m \in {4, 6, 9, 11} THEN 30 ELSE 31

DaysBeforeYear(y) ==
    LET p == y - 1 IN p * 365 + (p \div 4) - (p \div 100) + (p \div 400)

DaysBeforeMonthTable == <<0, 31, 59, 90, 120, 151, 181, 212, 243, 273, 304, 334>>

DaysBeforeMonth(y, m) ==
    DaysBeforeMonthTable[m] + (IF m > 2 /\ IsLeap(y) THEN 1 ELSE 0)

\* datetime.toordinal()
ToOrdinal(d) == DaysBeforeYear(d.year) + DaysBeforeMonth(d.year, d.month) + d.day

\* datetime.fromordinal(n), as Python's _ord2ymd computes it
FromOrdinal(ord) ==
    LET n0   == ord - 1
        n400 == n0 \div 146097
        r400 == n0 % 146097
        n100 == r400 \div 36524
        r100 == r400 % 36524
        n4   == r100 \div 1461
        r4   == r100 % 1461
        n1   == r4 \div 365
        n    == r4 % 365
        yr   == n400 * 400 + 1 + n100 * 100 + n4 * 4 + n1
    IN  IF n1 = 4 \/ n100 = 4
        THEN [year |-> yr - 1, month |-> 12, day |-> 31]
        ELSE LET leap == n1 = 3 /\ (n4 # 24 \/ n100 = 3)
                 m0   == (n + 50) \div 32
                 pre0 == DaysBeforeMonthTable[m0] + (IF m0 > 2 /\ leap THEN 1 ELSE 0)
                 mth  == IF pre0 > n THEN m0 - 1 ELSE m0
                 pre  == IF pre0 > n
                         THEN pre0 - (DaysInMonth(yr, m0 - 1))
                         ELSE pre0
             IN  [year |-> yr, month |-> mth, day |-> n - pre + 1]

MinYear == 1
MaxYear == 9999
MaxOrdinal == ToOrdinal([year |-> MaxYear, month |-> 12, day |-> 31])

\* A date string datetime.strptime(s, "%Y-%m-%d") accepts.
WellFormed(s) ==
    /\ s[1] \in MinYear..MaxYear
    /\ s[2] \in 1..12
    /\ s[3] \in 1..DaysInMonth(s[1], s[2])

\* datetime.strptime(s, "%Y-%m-%d") of a well-formed string
Strptime(s) == [year |-> s[1], month |-> s[2], day |-> s[3]]

\* d.strftime("%Y-%m-%d")
Strftime(d) == <<d.year, d.month, d.day>>

\* current_date <= end_date_obj : datetime compares (year, month, day)
DateLE(a, b) ==
    \/ a.year < b.year
    \/ a.year = b.year /\ a.month < b.month
    \/ a.year = b.year /\ a.month = b.month /\ a.day <= b.day

\* (a - b).days
DaysBetween(a, b) == ToOrdinal(a) - ToOrdinal(b)

\* d + timedelta(days = n) raises OverflowError outside 0001-01-01..9999-12-31
AddOverflows(d, n) == ~ (ToOrdinal(d) + n \in 1..MaxOrdinal)

AddDays(d, n) == FromOrdinal(ToOrdinal(d) + n)

\* ------------------------------------------------------------ inputs
BaseDate == [year |-> 2024, month |-> 2, day |-> 28]

\* Well-formed inputs: a window over the leap day and the month's end, and
\* the last two days datetime can represent.
WindowStrings == { Strftime(AddDays(BaseDate, k)) : k \in 0..SpanDays }
LastStrings   == { Strftime(FromOrdinal(MaxOrdinal - k)) : k \in 0..1 }
\* "2024-02-30": strptime raises ValueError
MalformedString == <<2024, 2, 30>>

DateRanges ==
    (WindowStrings \X WindowStrings) \cup (LastStrings \X LastStrings)
        \cup { <<MalformedString, Strftime(BaseDate)>> }

Symbols   == {"", "AAPL"}
Intervals == (-1)..MaxInterval
Callbacks == {"None", "callback"}

None == "None"
NoDate == [year |-> 0, month |-> 0, day |-> 0]
NoDateStr == <<0, 0, 0>>
\* The date field of the pre-loop warning notification (it names no date).
WarningNote == <<0, 0, 1>>

\* What the real engine's propagate may return as its decision: a full
\* dict, a dict with missing keys, and a dict whose action is "error".
RealDecisions ==
    { [action |-> "buy", confidence |-> 9, risk_score |-> 1],
      [confidence |-> 7],
      [action |-> "error", confidence |-> 0, risk_score |-> 0] }

\* MockTradingAgentsGraph.propagate: random.choice(["buy","sell","hold"]),
\* confidence in [0.5, 0.9], risk_score in [0.1, 0.8]
MockDecisions ==
    { [action |-> a, confidence |-> 5, risk_score |-> 8] : a \in {"buy", "sell", "hold"} }

\* ------------------------------------------------------------ state
VARIABLES
    \* module-level state of backtest.py
    TradingAgentsGraph, DEFAULT_CONFIG, import_error,
    \* the frame of the running call of historical_backtest
    pc, symbol, start_date, end_date, interval_days, progress_callback,
    config, ta, current_date, end_date_obj, results, total_days,
    processed_days, date_str, exc,
    \* what the caller and the collaborators observed
    returned, raised, trace, calls, entry_globals,
    \* process-wide state apply_sqlite_fix works on, and its frame
    sqlite3_module, fix_applied, pysqlite3_installed, fix_pc, fix_ret,
    fix_calls, fix_entry, fix_writes, fix_log

globals == <<TradingAgentsGraph, DEFAULT_CONFIG, import_error>>
frame == <<symbol, start_date, end_date, interval_days, progress_callback,
           config, ta, current_date, end_date_obj, results, total_days,
           processed_days, date_str, exc>>
observed == <<returned, raised, trace, calls, entry_globals>>
backtest_vars == <<globals, pc, frame, observed>>
fix_vars == <<sqlite3_module, fix_applied, pysqlite3_installed, fix_pc, fix_ret,
              fix_calls, fix_entry, fix_writes, fix_log>>
vars == <<backtest_vars, fix_vars>>

\* ------------------------------------------------------------ helpers
\* dict.get(key, default)
Get(d, key, default) == IF key \in DOMAIN d THEN d[key] ELSE default

\* The import attempted on every call.
NeedsImport_Always(tag, err) == TRUE

\* line 36: the lazy import runs only while nothing is cached
NeedsImport(tag, err) == tag = None /\ err = None

\* lines 72-74: a copy of DEFAULT_CONFIG with two keys set
MakeConfig(default_config) ==
    [base |-> default_config, max_debate_rounds |-> 1, online_tools |-> TRUE]

\* line 84: import_error and progress_callback
WarnNeeded(err, cb) == err # None /\ cb # None

\* The loop test with < for <=.
LoopCond_Strict(cur, last) == DateLE(cur, last) /\ cur # last

\* line 98: while current_date <= end_date_obj
LoopCond(cur, last) == DateLE(cur, last)

\* line 104: min(processed_days / total_days, 1.0), total_days # 0
Progress(processed, total) ==
    LET le1 == IF total > 0 THEN processed <= total ELSE processed >= total
    IN  IF le1 THEN <<processed, total>> ELSE <<1, 1>>

\* lines 110-115
SuccessRow(ds, decision) ==
    [date |-> ds,
     action |-> Get(decision, "action", "hold"),
     confidence |-> Get(decision, "confidence", 5),
     risk_score |-> Get(decision, "risk_score", 5)]

\* The error row filled with the defaults of a normal row.
ErrorRow_Defaults(ds, e) ==
    [date |-> ds, action |-> "error", confidence |-> 5, risk_score |-> 5,
     error |-> e]

\* lines 121-127
ErrorRow(ds, e) ==
    [date |-> ds, action |-> "error", confidence |-> 0, risk_score |-> 0,
     error |-> e]

\* line 131: current_date += timedelta(days=interval_days)
NextDate(cur, step) == AddDays(cur, step)

\* line 132: processed_days += interval_days
NextProcessed(processed, step) == processed + step

\* Entries of the observation log: a call of the progress callback (ok:
\* it returned), a call of ta.propagate (ok: it returned `decision`), an
\* append to results. step is the number of the loop iteration (0: before
\* the loop).
NoDecision == [none |-> TRUE]
NotifyEv(n, ds, p, failed) ==
    [kind |-> "notify", step |-> n, date |-> ds, progress |-> p, ok |-> ~failed,
     decision |-> NoDecision]
EngineEv(n, ds, success, decision) ==
    [kind |-> "engine", step |-> n, date |-> ds, progress |-> <<0, 1>>, ok |-> success,
     decision |-> decision]
AppendEv(n, ds) ==
    [kind |-> "append", step |-> n, date |-> ds, progress |-> <<0, 1>>, ok |-> TRUE,
     decision |-> NoDecision]

\* ------------------------------------------------------------ Init
BacktestInit ==
    /\ TradingAgentsGraph = None
    /\ DEFAULT_CONFIG = None
    /\ import_error = None
    /\ pc = "idle"
    /\ symbol = "" /\ start_date = NoDateStr /\ end_date = NoDateStr
    /\ interval_days = 7 /\ progress_callback = None
    /\ config = None /\ ta = None
    /\ current_date = NoDate /\ end_date_obj = NoDate
    /\ results = <<>> /\ total_days = 0 /\ processed_days = 0
    /\ date_str = NoDateStr /\ exc = None
    /\ returned = None /\ raised = None /\ trace = <<>> /\ calls = 0
    /\ entry_globals = <<None, None, None>>

\* A fresh interpreter: sys has no _sqlite_fix_applied; sys.modules either
\* holds the standard sqlite3 already or does not hold the key yet.
FixInit ==
    /\ sqlite3_module \in {"absent", "sqlite3"}
    /\ fix_applied = "unset"
    /\ pysqlite3_installed \in BOOLEAN
    /\ fix_pc = "idle"
    /\ fix_ret = None
    /\ fix_calls = 0
    /\ fix_entry = <<sqlite3_module, "unset", 0>>
    /\ fix_writes = 0
    /\ fix_log = <<>>

Init == BacktestInit /\ FixInit /\ sqlite3_module = "sqlite3" /\ ~ pysqlite3_installed

FixSpecInit == BacktestInit /\ FixInit

\* ------------------------------------------------------------ historical_backtest
\* line 31: a caller enters historical_backtest
Call ==
    /\ pc = "idle"
    /\ calls < MaxCalls
    /\ \E sym \in Symbols, range \in DateRanges, step \in Intervals, cb \in Callbacks :
        /\ symbol' = sym
        /\ start_date' = range[1]
        /\ end_date' = range[2]
        /\ interval_days' = step
        /\ progress_callback' = cb
    /\ config' = None /\ ta' = None
    /\ current_date' = NoDate /\ end_date_obj' = NoDate
    /\ results' = <<>> /\ total_days' = 0 /\ processed_days' = 0
    /\ date_str' = NoDateStr /\ exc' = None
    /\ returned' = None /\ raised' = None /\ trace' = <<>>
    /\ calls' = calls + 1
    /\ entry_globals' = globals
    /\ pc' = "import"
    /\ UNCHANGED <<globals, fix_vars>>

\* lines 36-69: the lazy import of the engine class
LazyImport ==
    /\ pc = "import"
    /\ \/ /\ NeedsImport(TradingAgentsGraph, import_error)
          /\ \/ /\ TradingAgentsGraph' = "RealTradingAgentsGraph"
                /\ DEFAULT_CONFIG' = "RealDefaultConfig"
                /\ UNCHANGED <<import_error, raised>>
                /\ pc' = "configure"
             \/ /\ import_error' = "ImportError"
                /\ TradingAgentsGraph' = "MockTradingAgentsGraph"
                /\ DEFAULT_CONFIG' = "MockDefaultConfig"
                /\ UNCHANGED raised
                /\ pc' = "configure"
             \/ \* an exception other than ImportError leaves the import
                /\ raised' = "import"
                /\ pc' = "raised"
                /\ UNCHANGED globals
       \/ /\ ~ NeedsImport(TradingAgentsGraph, import_error)
          /\ pc' = "configure"
          /\ UNCHANGED <<globals, raised>>
    /\ UNCHANGED <<frame, returned, trace, calls, entry_globals, fix_vars>>

\* lines 72-81
Configure ==
    /\ pc = "configure"
    /\ config' = MakeConfig(DEFAULT_CONFIG)
    /\ pc' = "warn"
    /\ UNCHANGED <<globals, symbol, start_date, end_date, interval_days,
                   progress_callback, ta, current_date, end_date_obj, results,
                   total_days, processed_days, date_str, exc, observed, fix_vars>>

\* lines 84-85: the mock-mode warning, outside any try
Warn ==
    /\ pc = "warn"
    /\ \/ /\ WarnNeeded(import_error, progress_callback)
          /\ \E failed \in BOOLEAN :
                /\ trace' = Append(trace, NotifyEv(0, WarningNote, <<0, 1>>, failed))
                /\ IF failed
                   THEN pc' = "raised" /\ raised' = "warn"
                   ELSE pc' = "construct" /\ UNCHANGED raised
       \/ /\ ~ WarnNeeded(import_error, progress_callback)
          /\ pc' = "construct"
          /\ UNCHANGED <<trace, raised>>
    /\ UNCHANGED <<globals, frame, returned, calls, entry_globals, fix_vars>>

\* line 87: ta = TradingAgentsGraph(debug=False, config=config)
Construct ==
    /\ pc = "construct"
    /\ \/ /\ ta' = TradingAgentsGraph
          /\ pc' = "parse"
          /\ UNCHANGED raised
       \/ \* the real engine's constructor may raise; the mock's is `pass`
          /\ TradingAgentsGraph = "RealTradingAgentsGraph"
          /\ raised' = "construct"
          /\ pc' = "raised"
          /\ UNCHANGED ta
    /\ UNCHANGED <<globals, symbol, start_date, end_date, interval_days,
                   progress_callback, config, current_date, end_date_obj, results,
                   total_days, processed_days, date_str, exc,
                   returned, trace, calls, entry_globals, fix_vars>>

\* lines 90-96
ParseDates ==
    /\ pc = "parse"
    /\ \/ /\ WellFormed(start_date) /\ WellFormed(end_date)
          /\ current_date' = Strptime(start_date)
          /\ end_date_obj' = Strptime(end_date)
          /\ results' = <<>>
          /\ total_days' = DaysBetween(Strptime(end_date), Strptime(start_date))
          /\ processed_days' = 0
          /\ pc' = "loop"
          /\ UNCHANGED raised
       \/ /\ ~ (WellFormed(start_date) /\ WellFormed(end_date))
          /\ raised' = "parse"
          /\ pc' = "raised"
          /\ UNCHANGED <<current_date, end_date_obj, results, total_days, processed_days>>
    /\ UNCHANGED <<globals, symbol, start_date, end_date, interval_days,
                   progress_callback, config, ta, date_str, exc,
                   returned, trace, calls, entry_globals, fix_vars>>

\* lines 98-99
LoopTest ==
    /\ pc = "loop"
    /\ interval_days >= 1 \/ Len(results) < MaxRows
    /\ \/ /\ LoopCond(current_date, end_date_obj)
          /\ date_str' = Strftime(current_date)
          /\ pc' = "notify"
       \/ /\ ~ LoopCond(current_date, end_date_obj)
          /\ pc' = "return"
          /\ UNCHANGED date_str
    /\ UNCHANGED <<globals, symbol, start_date, end_date, interval_days,
                   progress_callback, config, ta, current_date, end_date_obj,
                   results, total_days, processed_days, exc, observed, fix_vars>>

\* lines 101-105: the progress notification, inside the try
Notify ==
    /\ pc = "notify"
    /\ \/ /\ progress_callback = None
          /\ pc' = "propagate"
          /\ UNCHANGED <<exc, trace>>
       \/ \* processed_days / total_days
          /\ progress_callback # None /\ total_days = 0
          /\ exc' = "ZeroDivisionError"
          /\ pc' = "except"
          /\ UNCHANGED trace
       \/ /\ progress_callback # None /\ total_days # 0
          /\ \E failed \in BOOLEAN :
                /\ trace' = Append(trace,
                       NotifyEv(Len(results) + 1, date_str,
                                Progress(processed_days, total_days), failed))
                /\ IF failed
                   THEN exc' = "CallbackError" /\ pc' = "except"
                   ELSE pc' = "propagate" /\ UNCHANGED exc
    /\ UNCHANGED <<globals, symbol, start_date, end_date, interval_days,
                   progress_callback, config, ta, current_date, end_date_obj,
                   results, total_days, processed_days, date_str,
                   returned, raised, calls, entry_globals, fix_vars>>

\* lines 107-117: the engine call and the row built from its decision
Propagate ==
    /\ pc = "propagate"
    /\ \/ /\ ta = "RealTradingAgentsGraph"
          /\ exc' = "EngineError"
          /\ trace' = Append(trace, EngineEv(Len(results) + 1, date_str, FALSE, NoDecision))
          /\ pc' = "except"
          /\ UNCHANGED results
       \/ \E decision \in (IF ta = "RealTradingAgentsGraph"
                           THEN RealDecisions ELSE MockDecisions) :
          /\ results' = Append(results, SuccessRow(date_str, decision))
          /\ trace' = trace \o <<EngineEv(Len(results) + 1, date_str, TRUE, decision),
                                 AppendEv(Len(results) + 1, date_str)>>
          /\ pc' = "advance"
          /\ UNCHANGED exc
    /\ UNCHANGED <<globals, symbol, start_date, end_date, interval_days,
                   progress_callback, config, ta, current_date, end_date_obj,
                   total_days, processed_days, date_str,
                   returned, raised, calls, entry_globals, fix_vars>>

\* lines 119-128: except Exception as e
Except ==
    /\ pc = "except"
    /\ results' = Append(results, ErrorRow(date_str, exc))
    /\ trace' = Append(trace, AppendEv(Len(results) + 1, date_str))
    /\ exc' = None
    /\ pc' = "advance"
    /\ UNCHANGED <<globals, symbol, start_date, end_date, interval_days,
                   progress_callback, config, ta, current_date, end_date_obj,
                   total_days, processed_days, date_str,
                   returned, raised, calls, entry_globals, fix_vars>>

\* lines 130-132, outside the try
Advance ==
    /\ pc = "advance"
    /\ \/ /\ ~ AddOverflows(current_date, interval_days)
          /\ current_date' = NextDate(current_date, interval_days)
          /\ processed_days' = NextProcessed(processed_days, interval_days)
          /\ pc' = "loop"
          /\ UNCHANGED raised
       \/ \* OverflowError: date value out of range
          /\ AddOverflows(current_date, interval_days)
          /\ raised' = "advance"
          /\ pc' = "raised"
          /\ UNCHANGED <<current_date, processed_days>>
    /\ UNCHANGED <<globals, symbol, start_date, end_date, interval_days,
                   progress_callback, config, ta, end_date_obj, results,
                   total_days, date_str, exc,
                   returned, trace, calls, entry_globals, fix_vars>>

\* line 134: return pd.DataFrame(results)
Return ==
    /\ pc = "return"
    /\ returned' = results
    /\ pc' = "returned"
    /\ UNCHANGED <<globals, frame, raised, trace, calls, entry_globals, fix_vars>>

\* The call is over (the result was returned, or an exception left the
\* function): its frame is gone, the module-level names stay.
Leave ==
    /\ pc \in {"returned", "raised"}
    /\ pc' = "idle"
    /\ symbol' = "" /\ start_date' = NoDateStr /\ end_date' = NoDateStr
    /\ interval_days' = 7 /\ progress_callback' = None
    /\ config' = None /\ ta' = None
    /\ current_date' = NoDate /\ end_date_obj' = NoDate
    /\ results' = <<>> /\ total_days' = 0 /\ processed_days' = 0
    /\ date_str' = NoDateStr /\ exc' = None
    /\ returned' = None /\ raised' = None /\ trace' = <<>>
    /\ UNCHANGED <<globals, calls, entry_globals, fix_vars>>

Next ==
    \/ Call \/ LazyImport \/ Configure \/ Warn \/ Construct \/ ParseDates
    \/ LoopTest \/ Notify \/ Propagate \/ Except \/ Advance \/ Return \/ Leave

Spec == Init /\ [][Next]_vars

\* ------------------------------------------------------------ apply_sqlite_fix
\* The guard that never sees the flag.
AlreadyApplied_Never(flag) == FALSE

\* line 15: hasattr(sys, '_sqlite_fix_applied') and sys._sqlite_fix_applied
AlreadyApplied(flag) == flag # "unset" /\ flag = "True"

\* line 12 (and line 39, the call made when the module is imported)
FixCall ==
    /\ fix_pc \in {"idle", "done"}
    /\ fix_calls < MaxFixCalls
    /\ fix_calls' = fix_calls + 1
    /\ fix_entry' = <<sqlite3_module, fix_applied, fix_writes>>
    /\ fix_ret' = None
    /\ fix_pc' = "check"
    /\ UNCHANGED <<sqlite3_module, fix_applied, pysqlite3_installed, fix_writes, fix_log>>

\* lines 15-16
FixCheck ==
    /\ fix_pc = "check"
    /\ \/ /\ AlreadyApplied(fix_applied)
          /\ fix_ret' = TRUE
          /\ fix_log' = Append(fix_log, TRUE)
          /\ fix_pc' = "done"
       \/ /\ ~ AlreadyApplied(fix_applied)
          /\ fix_pc' = "find_spec"
          /\ UNCHANGED <<fix_ret, fix_log>>
    /\ UNCHANGED <<sqlite3_module, fix_applied, pysqlite3_installed, fix_calls,
                   fix_entry, fix_writes>>

\* lines 20-22
FixFindSpec ==
    /\ fix_pc = "find_spec"
    /\ \/ /\ ~ pysqlite3_installed
          /\ fix_ret' = FALSE
          /\ fix_log' = Append(fix_log, FALSE)
          /\ fix_pc' = "done"
       \/ /\ pysqlite3_installed
          /\ fix_pc' = "import"
          /\ UNCHANGED <<fix_ret, fix_log>>
    /\ UNCHANGED <<sqlite3_module, fix_applied, pysqlite3_installed, fix_calls,
                   fix_entry, fix_writes>>

\* line 25, and lines 34-36 when the import raises
FixImport ==
    /\ fix_pc = "import"
    /\ \/ /\ fix_pc' = "replace"
          /\ UNCHANGED <<fix_ret, fix_log>>
       \/ /\ fix_ret' = FALSE
          /\ fix_log' = Append(fix_log, FALSE)
          /\ fix_pc' = "done"
    /\ UNCHANGED <<sqlite3_module, fix_applied, pysqlite3_installed, fix_calls,
                   fix_entry, fix_writes>>

\* line 26: sys.modules['sqlite3'] = pysqlite3
FixReplace ==
    /\ fix_pc = "replace"
    /\ sqlite3_module' = "pysqlite3"
    /\ fix_writes' = fix_writes + 1
    /\ fix_pc' = "mark"
    /\ UNCHANGED <<fix_applied, pysqlite3_installed, fix_ret, fix_calls, fix_entry,
                   fix_log>>

\* line 29: sys._sqlite_fix_applied = True
FixMark ==
    /\ fix_pc = "mark"
    /\ fix_applied' = "True"
    /\ fix_pc' = "report"
    /\ UNCHANGED <<sqlite3_module, pysqlite3_installed, fix_ret, fix_calls, fix_entry,
                   fix_writes, fix_log>>

\* lines 32-33
FixReport ==
    /\ fix_pc = "report"
    /\ fix_ret' = TRUE
    /\ fix_log' = Append(fix_log, TRUE)
    /\ fix_pc' = "done"
    /\ UNCHANGED <<sqlite3_module, fix_applied, pysqlite3_installed, fix_calls,
                   fix_entry, fix_writes>>

\* The environment: pysqlite3 gets installed or removed.
FixEnvironment ==
    /\ pysqlite3_installed' = ~ pysqlite3_installed
    /\ UNCHANGED <<sqlite3_module, fix_applied, fix_pc, fix_ret, fix_calls,
                   fix_entry, fix_writes, fix_log>>

FixNext ==
    /\ \/ FixCall \/ FixCheck \/ FixFindSpec \/ FixImport \/ FixReplace
       \/ FixMark \/ FixReport \/ FixEnvironment
    /\ UNCHANGED backtest_vars

FixSpec == FixSpecInit /\ [][FixNext]_vars

\* ------------------------------------------------------------ properties
ValidRequest ==
    /\ symbol # ""
    /\ WellFormed(start_date) /\ WellFormed(end_date)
    /\ interval_days >= 1

\* The loop has been entered (lines 90-96 have run).
Parsed == current_date # NoDate

\* Lexicographic order of two "%Y-%m-%d" strings.
StrLess(a, b) ==
    \/ a[1] < b[1]
    \/ a[1] = b[1] /\ a[2] < b[2]
    \/ a[1] = b[1] /\ a[2] = b[2] /\ a[3] < b[3]

RowDates(rows) == [i \in 1..Len(rows) |-> rows[i].date]

\* start, start + step, start + 2*step, ... not after end
DateSequence(from, to, step) ==
    LET lo == ToOrdinal(Strptime(from))
        hi == ToOrdinal(Strptime(to))
        n  == IF lo > hi THEN 0 ELSE (hi - lo) \div step + 1
    IN  [k \in 1..n |-> Strftime(FromOrdinal(lo + (k - 1) * step))]

IsPrefix(a, b) == Len(a) <= Len(b) /\ \A i \in 1..Len(a) : a[i] = b[i]

\* C1: with interval_days >= 1 the dates of the rows are, in order, start_date,
\* start_date + interval_days, ... up to end_date: while the loop runs they
\* are a prefix of that sequence and strictly increasing, and the rows
\* returned carry exactly that sequence (none when start_date > end_date),
\* whatever the engine and the callback did on each date.
C1_RowDates ==
    (interval_days >= 1 /\ Parsed) =>
        /\ IsPrefix(RowDates(results), DateSequence(start_date, end_date, interval_days))
        /\ \A i \in 1..(Len(results) - 1) : StrLess(results[i].date, results[i + 1].date)
        /\ pc = "returned" =>
              /\ RowDates(returned) = DateSequence(start_date, end_date, interval_days)
              /\ (StrLess(end_date, start_date) => returned = <<>>)

\* C1 witness: a returned run over the month's end whose step skips over
\* end_date, with an error row followed by a normal row.
C1_Witness ==
    /\ pc = "returned" /\ interval_days = 2
    /\ start_date = <<2024, 2, 28>> /\ end_date = <<2024, 3, 2>>
    /\ RowDates(returned) = << <<2024, 2, 28>>, <<2024, 3, 1>> >>
    /\ returned[1].action = "error" /\ returned[2].action = "buy"

\* The events of loop iteration n, in the order they happened.
StepEvents(n) ==
    LET InStep(e) == e.step = n IN SelectSeq(trace, InStep)

Kinds(evs) == [k \in 1..Len(evs) |-> evs[k].kind]

EngineCalls(n) == { k \in DOMAIN trace : trace[k].kind = "engine" /\ trace[k].step = n }

EngineCalled(n) == EngineCalls(n) # {}
EngineRaised(n) == \E k \in EngineCalls(n) : ~ trace[k].ok

CallbackRaised == \E k \in DOMAIN trace : trace[k].kind = "notify" /\ ~ trace[k].ok

IsErrorRow(row) ==
    /\ row.action = "error" /\ row.confidence = 0 /\ row.risk_score = 0
    /\ "error" \in DOMAIN row

\* C2: failure isolation. For every recorded row whose date the engine was
\* called on: the row is an error row (action "error", confidence 0.0,
\* risk_score 0.0, an error description) exactly if the engine raised on
\* that date, and otherwise carries the values the engine returned for that
\* date; and a failure does not end the run: when the run of a request with
\* interval_days >= 1 has returned, a row follows every failed date whose
\* successor date is not after end_date.
C2_FailureIsolation ==
    /\ \A i \in 1..Len(results) :
          EngineCalled(i) =>
             /\ IsErrorRow(results[i]) <=> EngineRaised(i)
             /\ ~ EngineRaised(i) =>
                   \E k \in EngineCalls(i) :
                       /\ trace[k].date = results[i].date
                       /\ results[i] = SuccessRow(trace[k].date, trace[k].decision)
    /\ (pc = "returned" /\ interval_days >= 1) =>
          \A i \in 1..Len(returned) :
             (EngineRaised(i)
                 /\ ToOrdinal(Strptime(returned[i].date)) + interval_days
                       <= ToOrdinal(Strptime(end_date)))
             => i < Len(returned)

\* C2 witness: the engine raised on the middle one of three dates, a
\* callback was supplied, and the run returned.
C2_Witness ==
    /\ pc = "returned" /\ progress_callback # None /\ Len(returned) = 3
    /\ ~ EngineRaised(1) /\ EngineRaised(2) /\ EngineCalled(3) /\ ~ EngineRaised(3)
    /\ returned[1].action = "hold" /\ returned[2].action = "error"
    /\ returned[3].action = "buy"

\* C3: when no engine call failed and none returned the action "error", no
\* returned row has action "error", a single-day range with a callback
\* supplied included (stated for valid requests whose callback never raised).
C3_NoErrorRowWithoutEngineFailure ==
    (/\ pc = "returned"
     /\ ValidRequest
     /\ ~ CallbackRaised
     /\ \A k \in DOMAIN trace :
            trace[k].kind = "engine" =>
                trace[k].ok /\ Get(trace[k].decision, "action", "hold") # "error")
    => \A i \in 1..Len(returned) : returned[i].action # "error"

\* C4: a valid request whose set-up (lazy import, warning notification,
\* engine construction) went through is never left by an exception.
C4_ValidRequestReturns ==
    (ValidRequest /\ pc = "raised") => raised \in {"import", "warn", "construct"}

\* C5: an invalid request (empty symbol or interval_days <= 0) never gets
\* into the loop: no engine call, no row, no result returned.
C5_InvalidRequestFailsFast ==
    (calls > 0 /\ pc # "idle" /\ (symbol = "" \/ interval_days <= 0)) =>
        /\ pc \in {"import", "configure", "warn", "construct", "parse", "raised"}
        /\ results = <<>>
        /\ \A k \in DOMAIN trace : trace[k].kind # "engine"

\* C6: whenever a call of the progress callback raised, the exception left
\* historical_backtest and no row was recorded for it.
C6_CallbackFailurePropagates ==
    \A k \in DOMAIN trace :
        (trace[k].kind = "notify" /\ ~ trace[k].ok) =>
            /\ pc = "raised"
            /\ k = Len(trace)
            /\ \A i \in 1..Len(results) : ~ IsErrorRow(results[i]) \/ EngineRaised(i)

\* p <= q for fractions with positive denominators
FracLE(p, q) == p[1] * q[2] <= q[1] * p[2]

Notifications == LET IsNotify(e) == e.kind = "notify" IN SelectSeq(trace, IsNotify)

\* C7: every progress value handed to the callback in a run lies in [0, 1]
\* and the values never decrease from one notification to the next.
C7_ProgressMonotone ==
    /\ \A k \in 1..Len(Notifications) :
          /\ FracLE(<<0, 1>>, Notifications[k].progress)
          /\ FracLE(Notifications[k].progress, <<1, 1>>)
    /\ \A k \in 1..(Len(Notifications) - 1) :
          FracLE(Notifications[k].progress, Notifications[k + 1].progress)

NothingCached == <<None, None, None>>

\* C8 as stated: when a call has returned, the module-level names are what
\* they were when it was entered.
C8_NoModuleState ==
    pc = "returned" => globals = entry_globals

\* C8 amended: the lazy-import cache is the only state kept between calls.
\* A call entered with the cache filled leaves it as it found it, the cache
\* is empty or holds one engine class with its configuration, and a call
\* starts from a fresh frame.
C8_OnlyImportCache ==
    /\ entry_globals # NothingCached => globals = entry_globals
    /\ globals \in { NothingCached,
                     <<"RealTradingAgentsGraph", "RealDefaultConfig", None>>,
                     <<"MockTradingAgentsGraph", "MockDefaultConfig", "ImportError">> }
    /\ pc \in {"idle", "import"} =>
          /\ results = <<>> /\ trace = <<>> /\ processed_days = 0
          /\ current_date = NoDate /\ ta = None /\ returned = None

\* C8 witness: a second call, entered in mock mode, has returned rows.
C8_Witness ==
    /\ calls = 2 /\ pc = "returned" /\ Len(returned) > 0
    /\ entry_globals = <<"MockTradingAgentsGraph", "MockDefaultConfig", "ImportError">>
    /\ globals = entry_globals

\* C9: per-step protocol. For every recorded row the iteration consisted of
\* one notification (when a callback is supplied), then one engine call,
\* then one append, all for the row's date, a single-day range included
\* (stated for valid requests whose callback never raised); an inverted
\* range makes no engine call.
C9_PerStepProtocol ==
    /\ (ValidRequest /\ ~ CallbackRaised) =>
          \A i \in 1..Len(results) :
             /\ Kinds(StepEvents(i)) =
                   (IF progress_callback # None
                    THEN <<"notify", "engine", "append">>
                    ELSE <<"engine", "append">>)
             /\ \A k \in 1..Len(StepEvents(i)) : StepEvents(i)[k].date = results[i].date
    /\ (Parsed /\ StrLess(end_date, start_date)) =>
          \A k \in DOMAIN trace : trace[k].kind # "engine"

====
